---- MODULE Spec2Model ----
(***************************************************************************)
(* Model of visualisasi.py: the Chicago crime dashboard.                   *)
(*                                                                         *)
(* A data-frame cell is a tagged value [t, n, s]: t is the Python type of  *)
(* the cell ("str", "int", "float", "bool", "ts" for a pandas Timestamp,   *)
(* "nan" for a missing cell), n its number and s its text.  Text is a      *)
(* sequence of character codes, so that str(), float(), to_datetime() and  *)
(* the lexicographic order of join keys are computed, not assumed.         *)
(*                                                                         *)
(* Calendar abstraction: a date is a day index and a date text is          *)
(* "<day>" or "<day>T<hh>"; a Timestamp counts hours, day * 24 + hour.     *)
(***************************************************************************)
EXTENDS Integers, Sequences, FiniteSets, TLC

\* Bounds of the model.
MaxRecs == 2    \* records in a batch handed to clean_crimes
MaxRows == 3    \* records in a batch whose cleaned frame is handed to the views
MaxDay == 2     \* last day index of an incident; filter dates range to MaxDay + 1

VARIABLES
    results,          \* line 276: the list of records the API call returned
    df_crime_1,       \* line 277: the caller's frame built from results
    df_communities,   \* line 12: the neighbourhood table (rows)
    community_chosen, \* line 252: the Community widget
    crime_type,       \* line 253: the Crime Type widget
    begin_date,       \* line 249: the Begin Date widget (a day)
    ending_date,      \* line 250: the End Date widget (a day)
    ret,              \* what the last clean_crimes call returned or raised
    arrest_counts,    \* what plot_arrest_ratio computed (lines 146-151)
    df_coordinates,   \* what crime_map computed (lines 208-217)
    session_state,    \* st.session_state: <<>> or <<new_df_key_1>>
    shown,            \* what each placeholder of the page shows
    pc                \* position of the script

vars == <<results, df_crime_1, df_communities, community_chosen, crime_type,
          begin_date, ending_date, ret, arrest_counts, df_coordinates,
          session_state, shown, pc>>

----------------------------------------------------------------------------
\* Cells

NaN == [t |-> "nan", n |-> 0, s |-> <<>>]
IntV(n) == [t |-> "int", n |-> n, s |-> <<>>]
FloatV(n) == [t |-> "float", n |-> n, s |-> <<>>]
BoolV(b) == [t |-> "bool", n |-> IF b THEN 1 ELSE 0, s |-> <<>>]
StrV(s) == [t |-> "str", n |-> 0, s |-> s]
TsV(n) == [t |-> "ts", n |-> n, s |-> <<>>]

\* Text

IsDigit(c) == c \in 48..57
IsDigits(s) == Len(s) > 0 /\ \A i \in 1..Len(s) : IsDigit(s[i])

RECURSIVE ToInt(_)
ToInt(s) == IF s = <<>> THEN 0
            ELSE ToInt(SubSeq(s, 1, Len(s) - 1)) * 10 + (s[Len(s)] - 48)

RECURSIVE Digits(_)
Digits(n) == IF n < 10 THEN <<48 + n>> ELSE Digits(n \div 10) \o <<48 + (n % 10)>>

RECURSIVE LexLess(_, _)
LexLess(a, b) ==
    IF b = <<>> THEN FALSE
    ELSE IF a = <<>> THEN TRUE
    ELSE IF a[1] # b[1] THEN a[1] < b[1]
    ELSE LexLess(Tail(a), Tail(b))

\* str(x), as Series.astype(str) applies it to each cell (line 94).
astype_str(v) ==
    IF v.t = "int" THEN StrV(Digits(v.n))
    ELSE IF v.t = "nan" THEN StrV(<<110, 97, 110>>)
    ELSE v

\* float(x), as Series.astype(float) applies it to each cell (lines 213-214):
\* a missing cell stays NaN, a numeric text is parsed, any other text raises.
CanFloat(v) == v.t \in {"nan", "int", "float"} \/ (v.t = "str" /\ IsDigits(v.s))
astype_float(v) ==
    IF v.t = "str" THEN FloatV(ToInt(v.s))
    ELSE IF v.t = "int" THEN FloatV(v.n)
    ELSE v

\* pd.to_datetime(x, format='mixed') on one cell (line 58): the format is
\* inferred per cell, "<day>" or "<day>T<hh>"; a Timestamp is kept.
TPos(s) == {i \in 1..Len(s) : s[i] = 84}
CanParseDate(v) ==
    \/ v.t = "ts"
    \/ /\ v.t = "str"
       /\ \/ IsDigits(v.s)
          \/ /\ Cardinality(TPos(v.s)) = 1
             /\ LET p == CHOOSE i \in TPos(v.s) : TRUE
                IN /\ IsDigits(SubSeq(v.s, 1, p - 1))
                   /\ Len(v.s) - p = 2
                   /\ IsDigits(SubSeq(v.s, p + 1, Len(v.s)))
                   /\ ToInt(SubSeq(v.s, p + 1, Len(v.s))) < 24
to_datetime(v) ==
    IF v.t = "ts" THEN v
    ELSE IF TPos(v.s) = {} THEN TsV(ToInt(v.s) * 24)
    ELSE LET p == CHOOSE i \in TPos(v.s) : TRUE
         IN TsV(ToInt(SubSeq(v.s, 1, p - 1)) * 24 + ToInt(SubSeq(v.s, p + 1, Len(v.s))))

\* date.strftime('%Y-%m-%d') (lines 280-281): the date-only text of a day.
strftime(day) == StrV(Digits(day))

THEFT == StrV(<<84, 72, 69, 70, 84>>)
ASSAULT == StrV(<<65, 83, 83, 65, 85, 76, 84>>)

\* crime_names (lines 31-41), cut to two of the thirteen names.
crime_names == <<THEFT, ASSAULT>>

----------------------------------------------------------------------------
\* Frames

\* pd.DataFrame.from_records (line 277): the columns are the keys of the
\* records, so an empty list gives a frame with no column at all.
from_records(recs) ==
    [columns |-> IF recs = <<>> THEN {} ELSE DOMAIN recs[1], rows |-> recs]

\* The dtype pandas infers for a column: int64 when every cell is an int,
\* object otherwise.
dtype(rows, col) ==
    IF rows # <<>> /\ \A i \in 1..Len(rows) : rows[i][col].t = "int"
    THEN "int64" ELSE "object"

\* Lines 61-62: the two masks of the date filter.
mask_1(date, start_date) == date.n >= to_datetime(start_date).n

\* mask_2 as it would be with the end date let in.
mask_2_inclusive(date, end_date) == date.n <= to_datetime(end_date).n

mask_2(date, end_date) == date.n < to_datetime(end_date).n

\* Line 64: sort_values(by='date') with the default kind='quicksort', which
\* is not stable: every ordering by date is a possible outcome.
sort_values(rows) ==
    { [i \in 1..Len(rows) |-> rows[p[i]]] :
        p \in { q \in Permutations(1..Len(rows)) :
                  \A i, j \in 1..Len(rows) :
                      i < j => rows[q[i]].date.n <= rows[q[j]].date.n } }

\* TimeOfDay as it would be with the upper end of each interval let in.
TimeOfDay_closed(hour) ==
    IF hour >= 0 /\ hour <= 4
        THEN StrV(<<49, 50, 97, 109, 32, 116, 111, 32, 52, 97, 109>>)
    ELSE IF hour >= 4 /\ hour <= 8
        THEN StrV(<<52, 97, 109, 32, 116, 111, 32, 56, 97, 109>>)
    ELSE IF hour >= 8 /\ hour <= 12
        THEN StrV(<<56, 97, 109, 32, 116, 111, 32, 49, 50, 112, 109>>)
    ELSE IF hour >= 12 /\ hour <= 16
        THEN StrV(<<49, 50, 112, 109, 32, 116, 111, 32, 52, 112, 109>>)
    ELSE IF hour >= 16 /\ hour <= 20
        THEN StrV(<<52, 112, 109, 32, 116, 111, 32, 56, 112, 109>>)
    ELSE IF hour >= 20
        THEN StrV(<<56, 112, 109, 32, 116, 111, 32, 49, 50, 97, 109>>)
    ELSE IntV(0)

\* Lines 73-85: np.select(conditions, values), first true condition wins and
\* the default is 0.
TimeOfDay(hour) ==
    IF hour >= 0 /\ hour < 4
        THEN StrV(<<49, 50, 97, 109, 32, 116, 111, 32, 52, 97, 109>>)
    ELSE IF hour >= 4 /\ hour < 8
        THEN StrV(<<52, 97, 109, 32, 116, 111, 32, 56, 97, 109>>)
    ELSE IF hour >= 8 /\ hour < 12
        THEN StrV(<<56, 97, 109, 32, 116, 111, 32, 49, 50, 112, 109>>)
    ELSE IF hour >= 12 /\ hour < 16
        THEN StrV(<<49, 50, 112, 109, 32, 116, 111, 32, 52, 112, 109>>)
    ELSE IF hour >= 16 /\ hour < 20
        THEN StrV(<<52, 112, 109, 32, 116, 111, 32, 56, 112, 109>>)
    ELSE IF hour >= 20
        THEN StrV(<<56, 112, 109, 32, 116, 111, 32, 49, 50, 97, 109>>)
    ELSE IntV(0)

\* Lines 67-85: the derived columns (month and year follow day and are left out).
derive(r) ==
    r @@ [hour |-> IntV(r.date.n % 24), day |-> IntV(r.date.n \div 24),
          Time_of_Day |-> TimeOfDay(r.date.n % 24)]

\* Line 88: the crime filter.
is_crime(r, crime) == r.primary_type = crime

RECURSIVE Concat(_)
Concat(ss) == IF ss = <<>> THEN <<>> ELSE Head(ss) \o Concat(Tail(ss))

\* The order pandas gives the join keys of an outer merge: ints before texts,
\* ints by value, texts lexicographically.
KeyLess(a, b) ==
    IF a.t = "int" /\ b.t = "int" THEN a.n < b.n
    ELSE IF a.t = "int" THEN b.t # "int"
    ELSE IF b.t = "int" THEN FALSE
    ELSE LexLess(a.s, b.s)

RECURSIVE SortKeys(_)
SortKeys(S) ==
    IF S = {} THEN <<>>
    ELSE LET m == CHOOSE x \in S : \A y \in S \ {x} : KeyLess(x, y)
         IN <<m>> \o SortKeys(S \ {m})

\* A row of the merge that no incident stands behind.
NoIncident ==
    [id |-> NaN, date |-> NaN, primary_type |-> NaN, arrest |-> NaN,
     latitude |-> NaN, longitude |-> NaN, hour |-> NaN, day |-> NaN,
     Time_of_Day |-> NaN]

\* Line 97: pd.merge(crime_df, neighborhoods, on='community_area', how='outer').
\* The keys of both frames, sorted; under a key the incidents in their order,
\* each with every neighbourhood of that key.
merge(left, right) ==
    LET keys == {left[i].community_area : i \in 1..Len(left)}
                  \cup {right[j].community_area : j \in 1..Len(right)}
        Under(k) ==
            LET IsK(r) == r.community_area = k
                L == SelectSeq(left, IsK)
                R == SelectSeq(right, IsK)
            IN IF L = <<>> THEN [j \in 1..Len(R) |-> R[j] @@ NoIncident]
               ELSE IF R = <<>> THEN [i \in 1..Len(L) |-> L[i] @@ [Community |-> NaN]]
               ELSE [x \in 1..(Len(L) * Len(R)) |->
                       L[((x - 1) \div Len(R)) + 1]
                         @@ [Community |-> R[((x - 1) % Len(R)) + 1].Community]]
        order == SortKeys(keys)
    IN Concat([x \in 1..Len(order) |-> Under(order[x])])

\* Line 101: dropna(subset="id").
dropna_id(rows) == LET HasId(r) == r.id.t # "nan" IN SelectSeq(rows, HasId)

\* Lines 91-94: rename 'Community Area' and make it text, on a new frame.
rename_astype(neighborhoods) ==
    [j \in 1..Len(neighborhoods) |->
        [Community |-> neighborhoods[j].Community,
         community_area |-> astype_str(neighborhoods[j].Community_Area)]]

Raised(err, crime_df) ==
    [status |-> err, new_df |-> <<>>, crime_tot |-> 0, crime_df |-> crime_df]

\* Lines 54-106: clean_crimes.  The set of its possible outcomes; each holds
\* what the call returned or raised and the caller's frame after the call.
clean_crimes(crime_df, neighborhoods, crime, start_date, end_date) ==
    IF "date" \notin crime_df.columns
    THEN {Raised("KeyError", crime_df)}
    ELSE IF \E i \in 1..Len(crime_df.rows) : ~CanParseDate(crime_df.rows[i].date)
    THEN {Raised("ValueError", crime_df)}
    ELSE
      LET converted ==
              [crime_df EXCEPT !.rows =
                  [i \in 1..Len(crime_df.rows) |->
                      [crime_df.rows[i] EXCEPT !.date = to_datetime(@)]]]
          InRange(r) == mask_1(r.date, start_date) /\ mask_2(r.date, end_date)
          IsCrime(r) == is_crime(r, crime)
          nb == rename_astype(neighborhoods)
          After(sorted) ==
              LET enriched == [i \in 1..Len(sorted) |-> derive(sorted[i])]
                  crime_df_0 == SelectSeq(enriched, IsCrime)
                  crime_df_2 == dropna_id(merge(crime_df_0, nb))
              IN IF dtype(crime_df.rows, "community_area") = "int64"
                 THEN Raised("ValueError", converted)
                 ELSE [status |-> "ok", new_df |-> crime_df_2,
                       crime_tot |-> Len(crime_df_2), crime_df |-> converted]
      IN {After(sorted) : sorted \in sort_values(SelectSeq(converted.rows, InRange))}

----------------------------------------------------------------------------
\* Views

Count(df, v) == Cardinality({i \in 1..Len(df) : df[i].arrest = v})

\* Round2 as it would be if the percentage were cut, not rounded.
Round2_cut(count, total) == (count * 10000) \div total

\* np.round(count / total * 100, 2) (line 151), in hundredths of a percent:
\* to the nearest hundredth, a tie to the even one.
Round2(count, total) ==
    LET q == (count * 10000) \div total
        rem == (count * 10000) % total
    IN IF 2 * rem > total THEN q + 1
       ELSE IF 2 * rem = total THEN q + (q % 2)
       ELSE q

RECURSIVE ByCount(_, _)
ByCount(df, S) ==
    IF S = {} THEN <<>>
    ELSE LET First(v) == CHOOSE i \in 1..Len(df) :
                             df[i].arrest = v /\ \A j \in 1..(i - 1) : df[j].arrest # v
             m == CHOOSE x \in S : \A y \in S \ {x} :
                      \/ Count(df, x) > Count(df, y)
                      \/ Count(df, x) = Count(df, y) /\ First(x) < First(y)
         IN <<m>> \o ByCount(df, S \ {m})

\* Lines 146-151 of plot_arrest_ratio: value_counts (missing values are not
\* counted, most frequent first), then ratio and percentage per value.
plot_arrest_ratio(df) ==
    LET present == {df[i].arrest : i \in 1..Len(df)} \ {NaN}
        order == ByCount(df, present)
        total == Cardinality({i \in 1..Len(df) : df[i].arrest # NaN})
    IN [x \in 1..Len(order) |->
          [arrest |-> order[x],
           count |-> Count(df, order[x]),
           ratio |-> <<Count(df, order[x]), total>>,
           percentage |-> Round2(Count(df, order[x]), total)]]

\* Line 217: dropna() on the two coordinate columns.
dropna(rows) ==
    LET Whole(r) == r.latitude.t # "nan" /\ r.longitude.t # "nan"
    IN SelectSeq(rows, Whole)

\* Lines 208-222: crime_map.  astype(float) raises on a text that is no number.
crime_map(df) ==
    IF \E i \in 1..Len(df) : ~CanFloat(df[i].latitude) \/ ~CanFloat(df[i].longitude)
    THEN [status |-> "ValueError", rows |-> <<>>]
    ELSE [status |-> "ok",
          rows |-> dropna([i \in 1..Len(df) |->
                      [latitude |-> astype_float(df[i].latitude),
                       longitude |-> astype_float(df[i].longitude)]])]

----------------------------------------------------------------------------
\* Inputs

Lat41 == StrV(<<52, 49>>)
Lon87 == StrV(<<56, 55>>)
NotANumber == StrV(<<120>>)
NotADate == StrV(<<110, 111, 116, 45, 97, 45, 100, 97, 116, 101>>)
Area5 == StrV(<<53>>)
Area10 == StrV(<<49, 48>>)

HydePark == [Community |-> StrV(<<72, 121, 100, 101, 32, 80, 97, 114, 107>>),
             Community_Area |-> IntV(5)]
Loop == [Community |-> StrV(<<76, 111, 111, 112>>), Community_Area |-> IntV(10)]
Kenwood == [Community |-> StrV(<<75, 101, 110, 119, 111, 111, 100>>),
            Community_Area |-> StrV(<<53>>)]

Rec(date, ptype, area, arrest, lat, lon) ==
    [id |-> NaN, date |-> date, primary_type |-> ptype, community_area |-> area,
     arrest |-> arrest, latitude |-> lat, longitude |-> lon]

\* The batches of at most n records of Dom, each record with its own id.
Batches(Dom, n) ==
    { [i \in 1..Len(b) |-> [b[i] EXCEPT !.id = StrV(Digits(i))]] :
        b \in UNION {[1..k -> Dom] : k \in 0..n} }

HourText(h) == IF h < 10 THEN <<48>> \o Digits(h) ELSE Digits(h)

\* Filtering, sorting and joining: dates on day boundaries, one of them
\* malformed, two crimes, two areas.
RangeRecs ==
    { Rec(d, c, a, BoolV(TRUE), Lat41, Lon87) :
        d \in {strftime(x) : x \in 0..MaxDay} \cup {NotADate},
        c \in {THEFT, ASSAULT}, a \in {Area5, Area10} }

\* Every hour of a day.
HourRecs ==
    { Rec(StrV(<<48, 84>> \o HourText(h)), THEFT, Area5, BoolV(TRUE), Lat41, Lon87) :
        h \in 0..23 }

\* Area codes that arrive as a number or as a text.
AreaRecs ==
    { Rec(strftime(0), THEFT, a, BoolV(TRUE), Lat41, Lon87) :
        a \in {Area5, IntV(5), Area10} }

\* Arrest flags and coordinates: present, missing or malformed.
ViewRecs ==
    { Rec(strftime(0), THEFT, Area5, BoolV(b), lat, lon) :
        b \in BOOLEAN, lat \in {Lat41, NaN, NotANumber}, lon \in {Lon87, NaN, NotANumber} }

\* The i-th record of a batch dated at hour i of day 0, as the API dates them
\* apart.
Hourly(batch) ==
    [i \in 1..Len(batch) |-> [batch[i] EXCEPT !.date = StrV(<<48, 84>> \o HourText(i))]]

NoReturn == [status |-> "none", new_df |-> <<>>, crime_tot |-> 0]
NoView == [status |-> "none", rows |-> <<>>]
Blank == [table |-> <<>>, count |-> <<>>, line |-> <<>>, bar |-> <<>>,
          hist |-> <<>>, pie |-> <<>>, map |-> <<>>]

InitCall(batches, tables, crimes, begins, ends) ==
    /\ results \in batches
    /\ df_crime_1 = from_records(results)
    /\ df_communities \in tables
    /\ community_chosen = df_communities[1].Community
    /\ crime_type \in crimes
    /\ begin_date \in begins
    /\ ending_date \in ends
    /\ begin_date < ending_date
    /\ ret = NoReturn
    /\ arrest_counts = NoView
    /\ df_coordinates = NoView
    /\ session_state = <<>>
    /\ shown = Blank
    /\ pc = "call"

InitRange ==
    InitCall(Batches(RangeRecs, MaxRecs), {<<HydePark, Loop>>},
             {THEFT, ASSAULT}, 0..(MaxDay + 1), 0..(MaxDay + 1))
InitHours ==
    InitCall(Batches(HourRecs, MaxRecs), {<<HydePark, Loop>>}, {THEFT}, {0}, {MaxDay + 1})
InitAreas ==
    InitCall(Batches(AreaRecs, MaxRecs),
             {<<HydePark>>, <<Kenwood>>, <<HydePark, Loop>>, <<HydePark, Kenwood>>},
             {THEFT}, {0}, {MaxDay + 1})

\* The views are handed the frame a call of clean_crimes returned.
InitViews ==
    /\ results \in {Hourly(b) : b \in Batches(ViewRecs, MaxRows)}
    /\ df_communities = <<HydePark, Loop>>
    /\ community_chosen = df_communities[1].Community
    /\ crime_type = THEFT
    /\ begin_date = 0
    /\ ending_date = MaxDay + 1
    /\ \E out \in clean_crimes(from_records(results), df_communities, crime_type,
                              strftime(begin_date), strftime(ending_date)) :
          /\ out.status = "ok"
          /\ df_crime_1 = out.crime_df
          /\ ret = [status |-> out.status, new_df |-> out.new_df,
                    crime_tot |-> out.crime_tot]
    /\ arrest_counts = NoView
    /\ df_coordinates = NoView
    /\ session_state = <<>>
    /\ shown = Blank
    /\ pc = "arrest"

----------------------------------------------------------------------------
\* A call of clean_crimes and of the views on what it returned

\* A call of clean_crimes on its own (line 296).  @st.cache_data (line 53) keeps the values
\* returned for the arguments it has seen, in one cache for all sessions: on
\* a hit the body does not run, so the caller's frame is not touched; a call
\* that raises is never a hit.
Clean ==
    /\ pc = "call"
    /\ \E out \in clean_crimes(df_crime_1, df_communities, crime_type,
                              strftime(begin_date), strftime(ending_date)),
          hit \in BOOLEAN :
         /\ hit => out.status = "ok"
         /\ ret' = [status |-> out.status, new_df |-> out.new_df,
                    crime_tot |-> out.crime_tot]
         /\ df_crime_1' = IF hit THEN df_crime_1 ELSE out.crime_df
    /\ pc' = IF ret'.status = "ok" THEN "returned" ELSE "raised"
    /\ UNCHANGED <<results, df_communities, community_chosen, crime_type,
                   begin_date, ending_date, arrest_counts, df_coordinates,
                   session_state, shown>>

\* A call of plot_arrest_ratio on its own (line 321).
ArrestRatio ==
    /\ pc = "arrest"
    /\ arrest_counts' = [status |-> "ok", rows |-> plot_arrest_ratio(ret.new_df)]
    /\ pc' = "map"
    /\ UNCHANGED <<results, df_crime_1, df_communities, community_chosen, crime_type,
                   begin_date, ending_date, ret, df_coordinates, session_state, shown>>

\* A call of crime_map on its own (line 346).
CrimeMap ==
    /\ pc = "map"
    /\ df_coordinates' = crime_map(ret.new_df)
    /\ pc' = "done"
    /\ UNCHANGED <<results, df_crime_1, df_communities, community_chosen, crime_type,
                   begin_date, ending_date, ret, arrest_counts, session_state, shown>>

----------------------------------------------------------------------------
\* The page: one run of the script per load, widget change or button click

\* The data set behind the API (line 21), newest first as order="date DESC"
\* returns it; every record lies between starting_date and the current date.
Incident(i, date, ptype, area, arrest, lat, lon) ==
    [Rec(StrV(date), ptype, area, BoolV(arrest), lat, lon) EXCEPT !.id = StrV(Digits(i))]
Dataset ==
    << Incident(4, <<50, 84, 50, 48>>, THEFT, Area10, FALSE, Lat41, Lon87),
       Incident(3, <<50, 84, 48, 57>>, THEFT, Area5, TRUE, Lat41, Lon87),
       Incident(2, <<49, 84, 49, 52>>, ASSAULT, Area5, FALSE, NaN, NaN),
       Incident(1, <<48, 84, 48, 50>>, THEFT, Area5, FALSE, Lat41, Lon87) >>

\* Lines 17-28: call_data; the where clause compares the two fields as text.
call_data(crime, community) ==
    LET Asked(r) == r.primary_type = crime /\ r.community_area = astype_str(community)
    IN SelectSeq(Dataset, Asked)

\* Lines 44-50: convert_community, the area number of the first row of that name.
convert_community(chosen_community, communities) ==
    LET i == CHOOSE k \in 1..Len(communities) :
                 /\ communities[k].Community = chosen_community
                 /\ \A j \in 1..(k - 1) : communities[j].Community # chosen_community
    IN communities[i].Community_Area

InitPage ==
    /\ results = <<>>
    /\ df_crime_1 = from_records(<<>>)
    /\ df_communities = <<HydePark, Loop>>
    /\ community_chosen = df_communities[1].Community
    /\ crime_type = crime_names[1]
    /\ begin_date = 0
    /\ ending_date = MaxDay + 1
    /\ ret = NoReturn
    /\ arrest_counts = NoView
    /\ df_coordinates = NoView
    /\ session_state = <<>>
    /\ shown = Blank
    /\ pc = "load"

\* Lines 266-369: the script, run from top to bottom with the widgets at
\* (community, crime, begin, ending) and the button at data_button.  A chart
\* is recorded as the frame it was drawn from.
Script(data_button, community, crime, begin, ending) ==
    LET recs == call_data(crime, convert_community(community, df_communities))
        frame == from_records(recs)
    IN \E out \in clean_crimes(frame, df_communities, crime,
                               strftime(begin), strftime(ending)),
          hit \in BOOLEAN :
        LET frame_1 == IF hit THEN frame ELSE out.crime_df
            first == session_state = <<>>
            session_1 == IF first THEN <<out.new_df>> ELSE session_state
            \* lines 297-347
            shown_1 == [table |-> IF first THEN <<out.new_df>> ELSE <<>>,
                        count |-> IF first THEN <<out.crime_tot>> ELSE <<>>,
                        line |-> session_1, bar |-> session_1, hist |-> session_1,
                        pie |-> session_1, map |-> session_1]
        IN /\ hit => out.status = "ok"
           /\ results' = recs
           /\ IF out.status # "ok"
              THEN \* line 296 raises and the run ends there
                   /\ df_crime_1' = frame_1
                   /\ ret' = [status |-> out.status, new_df |-> <<>>, crime_tot |-> 0]
                   /\ shown' = Blank
                   /\ UNCHANGED <<session_state, arrest_counts, df_coordinates>>
              ELSE IF ~data_button
              THEN /\ df_crime_1' = frame_1
                   /\ ret' = [status |-> "ok", new_df |-> out.new_df,
                              crime_tot |-> out.crime_tot]
                   /\ session_state' = session_1
                   /\ shown' = shown_1
                   /\ arrest_counts' =
                          [status |-> "ok", rows |-> plot_arrest_ratio(session_1[1])]
                   /\ df_coordinates' = crime_map(session_1[1])
              ELSE \* lines 352-369; the second call finds the dates parsed, or
                   \* is answered from the cache as the first was
                   \E again \in clean_crimes(frame_1, df_communities, crime,
                                             strftime(begin), strftime(ending)) :
                     /\ df_crime_1' = frame_1
                     /\ ret' = [status |-> again.status, new_df |-> again.new_df,
                                crime_tot |-> again.crime_tot]
                     /\ session_state' = <<again.new_df>>
                     /\ shown' = [shown_1 EXCEPT !.count = <<out.crime_tot>>,
                                                 !.table = <<again.new_df>>,
                                                 !.hist = <<again.new_df>>,
                                                 !.pie = <<again.new_df>>,
                                                 !.map = <<again.new_df>>]
                     /\ arrest_counts' =
                            [status |-> "ok", rows |-> plot_arrest_ratio(session_1[1])]
                     /\ df_coordinates' = crime_map(again.new_df)

\* The first run of a session.
FirstLoad ==
    /\ pc = "load"
    /\ Script(FALSE, community_chosen, crime_type, begin_date, ending_date)
    /\ pc' = "loaded"
    /\ UNCHANGED <<df_communities, community_chosen, crime_type, begin_date, ending_date>>

OnPage == pc \in {"loaded", "changed", "updated"}

\* A sidebar widget (lines 249-253) takes another value and the script reruns.
ChangeFilter ==
    /\ OnPage
    /\ \E c \in {df_communities[k].Community : k \in 1..Len(df_communities)},
          t \in {crime_names[k] : k \in 1..Len(crime_names)},
          b \in 0..(MaxDay + 1), e \in 0..(MaxDay + 1) :
         /\ Cardinality({x \in 1..4 :
                <<c, t, StrV(Digits(b)), StrV(Digits(e))>>[x]
                  # <<community_chosen, crime_type, StrV(Digits(begin_date)),
                       StrV(Digits(ending_date))>>[x]}) = 1
         /\ Script(FALSE, c, t, b, e)
         /\ community_chosen' = c
         /\ crime_type' = t
         /\ begin_date' = b
         /\ ending_date' = e
    /\ pc' = "changed"
    /\ UNCHANGED df_communities

\* "Update Data" (line 255) is clicked and the script reruns with the button set.
UpdateData ==
    /\ OnPage
    /\ Script(TRUE, community_chosen, crime_type, begin_date, ending_date)
    /\ pc' = "updated"
    /\ UNCHANGED <<df_communities, community_chosen, crime_type, begin_date, ending_date>>

Init == InitRange \/ InitHours \/ InitAreas \/ InitViews \/ InitPage
Next == Clean \/ ArrestRatio \/ CrimeMap \/ FirstLoad \/ ChangeFilter \/ UpdateData
Spec == Init /\ [][Next]_vars

----------------------------------------------------------------------------
\* Properties

Returned == ret.status = "ok"
Called == pc \notin {"call", "load"}
ViewsOfReturn == pc \in {"map", "done"}

RowIds(df) == {df[i].id : i \in 1..Len(df)}
Pos(id) == CHOOSE i \in 1..Len(results) : results[i].id = id
InputOf(id) == results[Pos(id)]

\* The filters, stated on a raw record: its date parses to an instant of
\* [begin_date 00:00, ending_date 00:00) and its crime is the one asked for.
Instant(r) == to_datetime(r.date).n
Passing(r) ==
    /\ CanParseDate(r.date)
    /\ begin_date * 24 <= Instant(r)
    /\ Instant(r) < ending_date * 24
    /\ r.primary_type = crime_type
PassingIds == {results[i].id : i \in {k \in 1..Len(results) : Passing(results[k])}}

\* C1: every row clean_crimes returns is an input record whose instant t has
\* start <= t < end and whose primary_type equals the crime asked for.
C1_RowsPassBothFilters ==
    Returned =>
        \A i \in 1..Len(ret.new_df) :
            /\ ret.new_df[i].id \in RowIds(results)
            /\ ret.new_df[i].date = TsV(Instant(InputOf(ret.new_df[i].id)))
            /\ begin_date * 24 <= ret.new_df[i].date.n
            /\ ret.new_df[i].date.n < ending_date * 24
            /\ ret.new_df[i].primary_type = crime_type
            /\ InputOf(ret.new_df[i].id).primary_type = crime_type

\* A returned row sits on the inclusive lower bound while the batch holds a
\* record on the exclusive upper bound, which is not returned.
C1_Witness ==
    /\ Returned
    /\ pc = "returned"
    /\ \E i \in 1..Len(ret.new_df) : ret.new_df[i].date.n = begin_date * 24
    /\ \E k \in 1..Len(results) :
          /\ results[k].date = strftime(ending_date)
          /\ results[k].primary_type = crime_type
          /\ results[k].id \notin RowIds(ret.new_df)

AllDatesParse == \A i \in 1..Len(results) : CanParseDate(results[i].date)
AllAreasText == \A i \in 1..Len(results) : results[i].community_area.t = "str"

DistinctInstants ==
    \A i, j \in 1..Len(results) :
        (AllDatesParse /\ Instant(results[i]) = Instant(results[j])) => i = j

\* C2: the rows clean_crimes returns are in ascending order of instant, rows of
\* one instant in the order of the input, whatever the area codes are.  Stated
\* on the batches whose instants all differ, where the order line 64 gives to
\* equal instants plays no part.
C2_SortedByInstantStable ==
    (Returned /\ DistinctInstants) =>
        \A i, j \in 1..Len(ret.new_df) :
            i < j =>
                \/ ret.new_df[i].date.n < ret.new_df[j].date.n
                \/ /\ ret.new_df[i].date.n = ret.new_df[j].date.n
                   /\ Pos(ret.new_df[i].id) <= Pos(ret.new_df[j].id)

Labels ==
    << StrV(<<49, 50, 97, 109, 32, 116, 111, 32, 52, 97, 109>>),
       StrV(<<52, 97, 109, 32, 116, 111, 32, 56, 97, 109>>),
       StrV(<<56, 97, 109, 32, 116, 111, 32, 49, 50, 112, 109>>),
       StrV(<<49, 50, 112, 109, 32, 116, 111, 32, 52, 112, 109>>),
       StrV(<<52, 112, 109, 32, 116, 111, 32, 56, 112, 109>>),
       StrV(<<56, 112, 109, 32, 116, 111, 32, 49, 50, 97, 109>>) >>

\* C3: every returned row carries exactly one of the six labels, never the
\* default, and it is the label of the four-hour interval [4k, 4k + 4) that
\* holds the hour of the row's instant.
C3_BucketTotalExclusive ==
    Returned =>
        \A i \in 1..Len(ret.new_df) :
            LET h == Instant(InputOf(ret.new_df[i].id)) % 24
            IN /\ ret.new_df[i].hour = IntV(h)
               /\ Cardinality({k \in 1..6 : Labels[k] = ret.new_df[i].Time_of_Day}) = 1
               /\ \E k \in 1..6 :
                     /\ 4 * (k - 1) <= h
                     /\ h < 4 * k
                     /\ ret.new_df[i].Time_of_Day = Labels[k]

\* Two returned rows sit on the boundary hours 4 and 20 and carry the labels
\* of the buckets that start there.
C3_Witness ==
    /\ Returned
    /\ \E i, j \in 1..Len(ret.new_df) :
          /\ ret.new_df[i].hour = IntV(4)
          /\ ret.new_df[i].Time_of_Day = Labels[2]
          /\ ret.new_df[j].hour = IntV(20)
          /\ ret.new_df[j].Time_of_Day = Labels[6]

\* C4: on a batch that is not empty and whose dates all parse, the call
\* returns, and every returned row whose area code, read as text, is that of
\* a neighbourhood carries the name of that neighbourhood, whether the code
\* arrived as a number or as a text.
C4_JoinOnNormalizedText ==
    (Called /\ results # <<>> /\ AllDatesParse) =>
        /\ Returned
        /\ \A i \in 1..Len(results), j \in 1..Len(df_communities) :
              (/\ Passing(results[i])
               /\ astype_str(results[i].community_area)
                    = astype_str(df_communities[j].Community_Area))
              => \E x \in 1..Len(ret.new_df) :
                    /\ ret.new_df[x].id = results[i].id
                    /\ ret.new_df[x].Community = df_communities[j].Community

\* C5: when a record of the batch has a date no format matches, the call
\* reports the malformed date and the valid records of the batch that pass
\* the filters still give their rows.
C5_BadDateDoesNotAbortBatch ==
    (Called /\ ~AllDatesParse /\ AllAreasText) =>
        /\ ret.status = "ValueError"
        /\ PassingIds \subseteq RowIds(ret.new_df)

UniqueAreas ==
    \A i, j \in 1..Len(df_communities) :
        astype_str(df_communities[i].Community_Area)
          = astype_str(df_communities[j].Community_Area) => i = j

\* C6: on a batch whose dates all parse and whose area codes are text, the
\* call returns; the returned rows are the records that pass the filters,
\* once each when the table's area codes are unique; every row has an id;
\* crime_tot is the number of rows, 0 with no row when no record passes.
C6_RowsAreThePassingRecords ==
    (Called /\ AllDatesParse /\ AllAreasText) =>
        /\ Returned
        /\ ret.crime_tot = Len(ret.new_df)
        /\ \A x \in 1..Len(ret.new_df) : ret.new_df[x].id.t = "str"
        /\ RowIds(ret.new_df) = PassingIds
        /\ UniqueAreas => Len(ret.new_df) = Cardinality(PassingIds)
        /\ PassingIds = {} => (ret.new_df = <<>> /\ ret.crime_tot = 0)

BothParse(r) ==
    /\ r.latitude.t = "str" /\ IsDigits(r.latitude.s)
    /\ r.longitude.t = "str" /\ IsDigits(r.longitude.s)

\* C7: crime_map returns, without raising, the (lat, lon) pairs of exactly the
\* rows whose latitude and longitude are both present and both numbers.
C7_BadCoordinatesAreSkipped ==
    pc = "done" =>
        /\ df_coordinates.status = "ok"
        /\ df_coordinates.rows =
              LET good == SelectSeq(ret.new_df, BothParse)
              IN [x \in 1..Len(good) |->
                    [latitude |-> FloatV(ToInt(good[x].latitude.s)),
                     longitude |-> FloatV(ToInt(good[x].longitude.s))]]

RECURSIVE SumPct(_)
SumPct(rows) == IF rows = <<>> THEN 0 ELSE Head(rows).percentage + SumPct(Tail(rows))

Abs(x) == IF x < 0 THEN -x ELSE x
Having(v) == Cardinality({i \in 1..Len(ret.new_df) : ret.new_df[i].arrest = v})

\* C8: on a frame that is not empty the arrest view has one row per arrest
\* value present; its count is the number of rows with that value; its
\* percentage (in hundredths) is count / total * 100 to the nearest hundredth;
\* the percentages add up to 100.00 within 0.01 per row; one arrest and one
\* non-arrest give two rows of 50.00.
C8_ArrestPercentages ==
    (ViewsOfReturn /\ ret.new_df # <<>>) =>
        LET rows == arrest_counts.rows
            total == Len(ret.new_df)
        IN /\ {rows[x].arrest : x \in 1..Len(rows)}
                = {ret.new_df[i].arrest : i \in 1..Len(ret.new_df)}
           /\ Len(rows) = Cardinality({ret.new_df[i].arrest : i \in 1..Len(ret.new_df)})
           /\ \A x \in 1..Len(rows) :
                 /\ rows[x].count = Having(rows[x].arrest)
                 /\ 2 * Abs(rows[x].percentage * total - rows[x].count * 10000) <= total
           /\ Abs(SumPct(rows) - 10000) <= Len(rows)
           /\ (Having(BoolV(TRUE)) = 1 /\ Having(BoolV(FALSE)) = 1) =>
                 (Len(rows) = 2 /\ \A x \in 1..2 : rows[x].percentage = 5000)

\* Two arrests and one non-arrest: 66.67 and 33.33.
C8_Witness ==
    /\ pc = "done"
    /\ Len(ret.new_df) = 3
    /\ Len(arrest_counts.rows) = 2
    /\ arrest_counts.rows[1] = [arrest |-> BoolV(TRUE), count |-> 2,
                                ratio |-> <<2, 3>>, percentage |-> 6667]
    /\ arrest_counts.rows[2].percentage = 3333

\* C9: a call of clean_crimes or of a view leaves the caller's frame, the date
\* of every record included, and the neighbourhood table as they were.
C9_InputsUnchanged ==
    [][(Clean \/ ArrestRatio \/ CrimeMap) =>
          (df_crime_1' = df_crime_1 /\ df_communities' = df_communities)]_vars

Drawn == {shown.table, shown.line, shown.bar, shown.hist, shown.pie, shown.map}

\* C10: at the end of every run of the script that went through, the table
\* and the five charts, as far as they show anything, show one frame, and a
\* count that is shown is its length; after a run with Update Data clicked
\* all of them show the frame clean_crimes returns for the widgets as they
\* stand.
C10_PageShowsOneDataset ==
    (OnPage /\ Returned) =>
        /\ \E df \in Drawn \ {<<>>} :
              /\ Drawn \ {<<>>} = {df}
              /\ shown.count \in {<<>>, <<Len(df[1])>>}
        /\ pc = "updated" =>
              (Drawn = {<<ret.new_df>>} /\ shown.count = <<ret.crime_tot>>)

====
